---- MODULE Spec2Model ----
(***************************************************************************)
(* A model of rustsetta's ELF64 decoder (src/src/elf.rs) and of the        *)
(* section-name resolution of its command-line entry point                 *)
(* (src/src/main.rs).                                                      *)
(*                                                                         *)
(* Number representation.  u8 and u16 values are integers.  u32 and u64    *)
(* values do not fit TLC's 32-bit integers, so a u32 is a pair and a u64   *)
(* a quadruple of 16-bit limbs, most significant limb first:               *)
(* 0x6FFF_FFFF is <<\h6FFF, \hFFFF>>.  Limb sequences of one width are      *)
(* ordered lexicographically, which is the numeric order.                  *)
(***************************************************************************)
EXTENDS Integers, Sequences, FiniteSets, TLC

VARIABLES
    file,              \* the byte source: a sequence of bytes 0..255
    pos,               \* ElfFile.inner's stream position (u64)
    is_little_endian,  \* ElfFile.is_little_endian
    pc,                \* where Elf::parse / main stands
    result,            \* outcome of Elf::parse: "running", "ok", "io", "format", "panic", "abort"
    ident,             \* fields of Ident read so far
    header,            \* FileHeader fields after ident (once read)
    segments,          \* Vec<Segment> built so far
    sections,          \* Vec<Section> built so far
    reads,             \* history: the byte ranges read_exact was called for, in order
    payloads,          \* history: the payload ranges (offset, size) of the entries decoded
    names,             \* main: the section names resolved so far
    cli,               \* main's outcome: "idle", "running", "ok", "utf8", "panic"
    raw,               \* codec harness: the raw value under test
    codec,             \* codec harness: which codec
    variant,           \* codec harness: the decoded variant
    encoded            \* codec harness: the re-encoded raw value

parseVars == <<file, pos, is_little_endian, pc, result, ident, header,
               segments, sections, reads, payloads, names, cli>>
codecVars == <<raw, codec, variant, encoded>>
vars == <<file, pos, is_little_endian, pc, result, ident, header,
          segments, sections, reads, payloads, names, cli, raw, codec, variant,
          encoded>>

----------------------------------------------------------------------------
(* Limb arithmetic *)

RECURSIVE LimbLess(_, _)
\* a < b for two limb sequences of the same length
LimbLess(a, b) ==
    IF a = <<>> THEN FALSE
    ELSE IF Head(a) # Head(b) THEN Head(a) < Head(b)
    ELSE LimbLess(Tail(a), Tail(b))

LimbLeq(a, b) == a = b \/ LimbLess(a, b)

\* the inclusive range pattern lo..=hi of a match arm
Within(v, lo, hi) == LimbLeq(lo, v) /\ LimbLeq(v, hi)

\* a u32 literal 0xHHHH_LLLL
W32(hi, lo) == <<hi, lo>>

----------------------------------------------------------------------------
(* Enumerated field codecs *)

Named(tag) == [tag |-> tag]
Carry(tag, value) == [tag |-> tag, value |-> value]

OsAbi_from_u8(value) ==
    CASE value = \h0 -> Named("SystemV")
      [] value = \h3 -> Named("Linux")
      [] OTHER -> Carry("Other", value)

u8_from_OsAbi(os_abi) ==
    CASE os_abi.tag = "SystemV" -> \h0
      [] os_abi.tag = "Linux" -> \h3
      [] os_abi.tag = "Other" -> os_abi.value

FileType_from_u16_shifted(value) ==
    CASE value = \h0 -> Named("None")
      [] value = \h1 -> Named("Relocatable")
      [] value = \h2 -> Named("Executable")
      [] value = \h3 -> Named("Dynamic")
      [] value = \h4 -> Named("Core")
      [] value \in \h5 .. \hFE00 -> Carry("Other", value)
      [] value \in \hFE01 .. \hFEFF -> Carry("OperatingSystem", value)
      [] value \in \hFF00 .. \hFFFF -> Carry("Processor", value)

FileType_from_u16(value) ==
    CASE value = \h0 -> Named("None")
      [] value = \h1 -> Named("Relocatable")
      [] value = \h2 -> Named("Executable")
      [] value = \h3 -> Named("Dynamic")
      [] value = \h4 -> Named("Core")
      [] value \in \h5 .. \hFDFF -> Carry("Other", value)
      [] value \in \hFE00 .. \hFEFF -> Carry("OperatingSystem", value)
      [] value \in \hFF00 .. \hFFFF -> Carry("Processor", value)

u16_from_FileType(file_type) ==
    CASE file_type.tag = "None" -> \h0
      [] file_type.tag = "Relocatable" -> \h1
      [] file_type.tag = "Executable" -> \h2
      [] file_type.tag = "Dynamic" -> \h3
      [] file_type.tag = "Core" -> \h4
      [] file_type.tag = "Other" -> file_type.value
      [] file_type.tag = "OperatingSystem" -> file_type.value
      [] file_type.tag = "Processor" -> file_type.value

Machine_from_u16(value) ==
    CASE value = \h03 -> Named("X86")
      [] value = \h28 -> Named("Arm")
      [] value = \h3E -> Named("Amd64")
      [] value = \hB7 -> Named("Arm64")
      [] OTHER -> Carry("Other", value)

u16_from_Machine(machine) ==
    CASE machine.tag = "X86" -> \h03
      [] machine.tag = "Arm" -> \h28
      [] machine.tag = "Amd64" -> \h3E
      [] machine.tag = "Arm64" -> \hB7
      [] machine.tag = "Other" -> machine.value

ProgramType_from_u32(value) ==
    CASE value = W32(0, \h0) -> Named("Null")
      [] value = W32(0, \h1) -> Named("Load")
      [] value = W32(0, \h2) -> Named("Dynamic")
      [] value = W32(0, \h3) -> Named("Interpreter")
      [] value = W32(0, \h4) -> Named("Note")
      [] value = W32(0, \h5) -> Named("SharedLibrary")
      [] value = W32(0, \h6) -> Named("ProgramHeaders")
      [] value = W32(0, \h7) -> Named("ThreadLocalStorage")
      [] Within(value, W32(0, \h8), W32(\h5FFF, \hFFFF)) -> Carry("Other", value)
      [] Within(value, W32(\h6000, 0), W32(\h6FFF, \hFFFF)) -> Carry("OperatingSystem", value)
      [] Within(value, W32(\h7000, 0), W32(\h7FFF, \hFFFF)) -> Carry("Processor", value)
      [] Within(value, W32(\h8000, 0), W32(\hFFFF, \hFFFF)) -> Carry("Other", value)

u32_from_ProgramType(program_type) ==
    CASE program_type.tag = "Null" -> W32(0, \h0)
      [] program_type.tag = "Load" -> W32(0, \h1)
      [] program_type.tag = "Dynamic" -> W32(0, \h2)
      [] program_type.tag = "Interpreter" -> W32(0, \h3)
      [] program_type.tag = "Note" -> W32(0, \h4)
      [] program_type.tag = "SharedLibrary" -> W32(0, \h5)
      [] program_type.tag = "ProgramHeaders" -> W32(0, \h6)
      [] program_type.tag = "ThreadLocalStorage" -> W32(0, \h7)
      [] program_type.tag = "Other" -> program_type.value
      [] program_type.tag = "OperatingSystem" -> program_type.value
      [] program_type.tag = "Processor" -> program_type.value

SectionType_from_u32(value) ==
    CASE value = W32(0, \h00) -> Named("Null")
      [] value = W32(0, \h01) -> Named("ProgramData")
      [] value = W32(0, \h02) -> Named("SymbolTable")
      [] value = W32(0, \h03) -> Named("StringTable")
      [] value = W32(0, \h04) -> Named("RelocationEntriesWithAddends")
      [] value = W32(0, \h05) -> Named("HashTable")
      [] value = W32(0, \h06) -> Named("Dynamic")
      [] value = W32(0, \h07) -> Named("Note")
      [] value = W32(0, \h08) -> Named("NoBits")
      [] value = W32(0, \h09) -> Named("RelocationEntries")
      [] value = W32(0, \h0A) -> Named("SharedLibrary")
      [] value = W32(0, \h0B) -> Named("LinkerSymbolTable")
      [] Within(value, W32(0, \h0C), W32(0, \h0D)) -> Carry("Other", value)
      [] value = W32(0, \h0E) -> Named("InitArray")
      [] value = W32(0, \h0F) -> Named("FinishArray")
      [] value = W32(0, \h10) -> Named("PreInitArray")
      [] value = W32(0, \h11) -> Named("Group")
      [] value = W32(0, \h12) -> Named("SymbolTableNameIndices")
      [] Within(value, W32(0, \h13), W32(\h5FFF, \hFFFF)) -> Carry("Other", value)
      [] Within(value, W32(\h6000, 0), W32(\h6FFF, \hFFFF)) -> Carry("OperatingSystem", value)
      [] Within(value, W32(\h7000, 0), W32(\h7FFF, \hFFFF)) -> Carry("Processor", value)
      [] Within(value, W32(\h8000, 0), W32(\hFFFF, \hFFFF)) -> Carry("Other", value)

u32_from_SectionType_gapless(section_type) ==
    CASE section_type.tag = "Null" -> W32(0, \h00)
      [] section_type.tag = "ProgramData" -> W32(0, \h01)
      [] section_type.tag = "SymbolTable" -> W32(0, \h02)
      [] section_type.tag = "StringTable" -> W32(0, \h03)
      [] section_type.tag = "RelocationEntriesWithAddends" -> W32(0, \h04)
      [] section_type.tag = "HashTable" -> W32(0, \h05)
      [] section_type.tag = "Dynamic" -> W32(0, \h06)
      [] section_type.tag = "Note" -> W32(0, \h07)
      [] section_type.tag = "NoBits" -> W32(0, \h08)
      [] section_type.tag = "RelocationEntries" -> W32(0, \h09)
      [] section_type.tag = "SharedLibrary" -> W32(0, \h0A)
      [] section_type.tag = "LinkerSymbolTable" -> W32(0, \h0B)
      [] section_type.tag = "InitArray" -> W32(0, \h0C)
      [] section_type.tag = "FinishArray" -> W32(0, \h0D)
      [] section_type.tag = "PreInitArray" -> W32(0, \h0E)
      [] section_type.tag = "Group" -> W32(0, \h0F)
      [] section_type.tag = "SymbolTableNameIndices" -> W32(0, \h10)
      [] section_type.tag = "OperatingSystem" -> section_type.value
      [] section_type.tag = "Processor" -> section_type.value
      [] section_type.tag = "Other" -> section_type.value

u32_from_SectionType(section_type) ==
    CASE section_type.tag = "Null" -> W32(0, \h00)
      [] section_type.tag = "ProgramData" -> W32(0, \h01)
      [] section_type.tag = "SymbolTable" -> W32(0, \h02)
      [] section_type.tag = "StringTable" -> W32(0, \h03)
      [] section_type.tag = "RelocationEntriesWithAddends" -> W32(0, \h04)
      [] section_type.tag = "HashTable" -> W32(0, \h05)
      [] section_type.tag = "Dynamic" -> W32(0, \h06)
      [] section_type.tag = "Note" -> W32(0, \h07)
      [] section_type.tag = "NoBits" -> W32(0, \h08)
      [] section_type.tag = "RelocationEntries" -> W32(0, \h09)
      [] section_type.tag = "SharedLibrary" -> W32(0, \h0A)
      [] section_type.tag = "LinkerSymbolTable" -> W32(0, \h0B)
      [] section_type.tag = "InitArray" -> W32(0, \h0E)
      [] section_type.tag = "FinishArray" -> W32(0, \h0F)
      [] section_type.tag = "PreInitArray" -> W32(0, \h10)
      [] section_type.tag = "Group" -> W32(0, \h11)
      [] section_type.tag = "SymbolTableNameIndices" -> W32(0, \h12)
      [] section_type.tag = "OperatingSystem" -> section_type.value
      [] section_type.tag = "Processor" -> section_type.value
      [] section_type.tag = "Other" -> section_type.value

----------------------------------------------------------------------------
(* Endian-aware primitive reader *)

Limb == 256 * 256

\* a small integer as a u64
U64(n) == <<0, 0, n \div Limb, n % Limb>>

\* a u64 below 2^31, the only ones that can index the byte source
Small(v) == v[1] = 0 /\ v[2] = 0 /\ v[3] < 32768

ToInt(v) == v[3] * Limb + v[4]

RECURSIVE AddLimbs(_, _)
AddLimbs(v, n) ==
    IF v = <<>> THEN <<>>
    ELSE LET s == v[Len(v)] + n
         IN  Append(AddLimbs(SubSeq(v, 1, Len(v) - 1), s \div Limb), s % Limb)

\* position arithmetic of the stream: v + n for a small n
Add64(v, n) == AddLimbs(v, n)

\* u32 widened to usize (`as usize`, 64-bit target)
Widen32(v) == <<0, 0, v[1], v[2]>>

u16_from_le_bytes(buffer) == buffer[2] * 256 + buffer[1]
u16_from_be_bytes(buffer) == buffer[1] * 256 + buffer[2]

u32_from_le_bytes(buffer) ==
    <<buffer[4] * 256 + buffer[3], buffer[2] * 256 + buffer[1]>>
u32_from_be_bytes(buffer) ==
    <<buffer[1] * 256 + buffer[2], buffer[3] * 256 + buffer[4]>>

u64_from_le_bytes(buffer) ==
    <<buffer[8] * 256 + buffer[7], buffer[6] * 256 + buffer[5],
      buffer[4] * 256 + buffer[3], buffer[2] * 256 + buffer[1]>>
u64_from_be_bytes(buffer) ==
    <<buffer[1] * 256 + buffer[2], buffer[3] * 256 + buffer[4],
      buffer[5] * 256 + buffer[6], buffer[7] * 256 + buffer[8]>>

\* whether `len` bytes can be obtained from source f at position `at` (both u64);
\* an empty buffer is filled without touching the source
Available(f, at, len) ==
    \/ len = U64(0)
    \/ /\ Small(at) /\ Small(len)
       /\ ToInt(at) + ToInt(len) <= Len(f)

\* the bytes [at, at + n) of source f
Bytes(f, at, n) == SubSeq(f, ToInt(at) + 1, ToInt(at) + n)

\* A reader in the middle of a step: its position, whether a `?` has already
\* returned an error, and the byte ranges requested so far.
Reader(p, log) == [pos |-> p, fail |-> FALSE, reads |-> log]

\* Read::read_exact on a buffer of `len` bytes (len a u64).  A short read fails
\* with UnexpectedEof after consuming what was left.
read_exact(f, r, len) ==
    IF r.fail THEN r
    ELSE LET ok == Available(f, r.pos, len)
         IN  [pos   |-> IF ok THEN (IF len = U64(0) THEN r.pos ELSE Add64(r.pos, ToInt(len)))
                        ELSE IF Small(r.pos) /\ ToInt(r.pos) < Len(f) THEN U64(Len(f))
                        ELSE r.pos,
              fail  |-> ~ok,
              reads |-> Append(r.reads, [at |-> r.pos, len |-> len])]

\* the reads of consecutive fixed-width fields, each followed by `?`
RECURSIVE ReadEach(_, _, _)
ReadEach(f, r, widths) ==
    IF widths = <<>> \/ r.fail THEN r
    ELSE ReadEach(f, read_exact(f, r, U64(Head(widths))), Tail(widths))

RECURSIVE Sum(_)
Sum(ws) == IF ws = <<>> THEN 0 ELSE Head(ws) + Sum(Tail(ws))

\* where the k-th of consecutive fields starts, the first starting at `start`
FieldAt(start, widths, k) == Add64(start, Sum(SubSeq(widths, 1, k - 1)))

read_u8(f, at) == Bytes(f, at, 1)[1]

read_u16(f, at, le) ==
    IF le THEN u16_from_le_bytes(Bytes(f, at, 2))
    ELSE u16_from_be_bytes(Bytes(f, at, 2))

read_u32(f, at, le) ==
    IF le THEN u32_from_le_bytes(Bytes(f, at, 4))
    ELSE u32_from_be_bytes(Bytes(f, at, 4))

read_u64(f, at, le) ==
    IF le THEN u64_from_le_bytes(Bytes(f, at, 8))
    ELSE u64_from_be_bytes(Bytes(f, at, 8))

\* Seek::seek(SeekFrom::Start(offset)), TRUE for Ok: lseek takes a signed
\* offset, so one of 2^63 or more is refused; seeking past the end of the source
\* is allowed, up to the largest file size of the file system, which for
\* offsets of 2^31 and more depends on the file system
SeekOutcomes(offset) ==
    IF offset[1] >= 32768 THEN {FALSE}
    ELSE IF Small(offset) THEN {TRUE}
    ELSE {TRUE, FALSE}

----------------------------------------------------------------------------
(* Structural decoder: Elf::parse *)

ELF_CLASS_64 == \h02
ELF_DATA_LE == \h01

\* the magic as read_ident compares it: 0x464C457F
ELF_MAGIC == W32(\h464C, \h457F)

\* widths of the fields read_header reads after the identification
HeaderWidths == <<2, 2, 4, 8, 8, 8, 4, 2, 2, 2, 2, 2, 2>>
\* widths of the fields of one program-header entry, as read_segments reads them
SegmentWidths == <<4, 4, 8, 8, 8, 8, 8, 8>>
\* widths of the fields of one section-header entry, as read_sections reads them
SectionWidths == <<4, 4, 8, 8, 8, 8, 4, 4, 8, 8>>

\* a `?` (or an explicit return Err) leaving Elf::parse with error `kind`
Abort(kind, r) ==
    /\ result' = kind
    /\ pc' = "done"
    /\ pos' = r.pos
    /\ reads' = r.reads

\* vec![0; size as usize]: a length above isize::MAX panics (capacity overflow);
\* one the allocator cannot serve aborts the process, which for lengths of
\* 2^31 and more depends on the machine
AllocOutcomes(size) ==
    IF size[1] >= 32768 THEN {"panic"}
    ELSE IF Small(size) THEN {"ok"}
    ELSE {"ok", "abort"}

FetchPayload_noseek(f, r, offset, size, seek, alloc) ==
    IF alloc # "ok"
    THEN [status |-> alloc, data |-> <<>>, pos |-> r.pos, reads |-> r.reads]
    ELSE LET rr == read_exact(f, Reader(r.pos, r.reads), size)
         IN  IF rr.fail
             THEN [status |-> "io", data |-> <<>>, pos |-> rr.pos, reads |-> rr.reads]
             ELSE [status |-> "ok",
                   data   |-> IF size = U64(0) THEN <<>> ELSE Bytes(f, r.pos, ToInt(size)),
                   pos    |-> rr.pos,
                   reads  |-> rr.reads]

\* The excursion to an entry's payload: seek to `offset` (with outcome `seek`),
\* allocate `size` bytes (with outcome `alloc`), read_exact them.  `r` is the
\* reader after the entry's fields.  A failing step leaves the function at once:
\* the stream stays where that step left it, and read_exact is called only
\* after the seek and the allocation succeeded.
FetchPayload(f, r, offset, size, seek, alloc) ==
    IF ~seek
    THEN [status |-> "io", data |-> <<>>, pos |-> r.pos, reads |-> r.reads]
    ELSE IF alloc # "ok"
    THEN [status |-> alloc, data |-> <<>>, pos |-> offset, reads |-> r.reads]
    ELSE LET rr == read_exact(f, Reader(offset, r.reads), size)
         IN  IF rr.fail
             THEN [status |-> "io", data |-> <<>>, pos |-> rr.pos, reads |-> rr.reads]
             ELSE [status |-> "ok",
                   data   |-> IF size = U64(0) THEN <<>> ELSE Bytes(f, offset, ToInt(size)),
                   pos    |-> rr.pos,
                   reads  |-> rr.reads]

IdentInvalid_magic_only(magic, is_64_bit) == magic # ELF_MAGIC

\* the condition under which read_ident refuses the file as not ELF64
IdentInvalid(magic, is_64_bit) == magic # ELF_MAGIC \/ ~is_64_bit

\* read_ident, first part: the magic and the class byte, and their validation
ReadMagicClass ==
    /\ pc = "magic"
    /\ LET r == ReadEach(file, Reader(pos, reads), <<4, 1>>)
       IN  IF r.fail
           THEN Abort("io", r) /\ UNCHANGED ident
           ELSE LET magic == read_u32(file, pos, is_little_endian)
                    is_64_bit == read_u8(file, Add64(pos, 4)) = ELF_CLASS_64
                IN  IF IdentInvalid(magic, is_64_bit)
                    THEN Abort("format", r) /\ UNCHANGED ident
                    ELSE /\ ident' = [magic |-> magic, is_64_bit |-> is_64_bit]
                         /\ pc' = "data"
                         /\ pos' = r.pos
                         /\ reads' = r.reads
                         /\ UNCHANGED result
    /\ UNCHANGED <<file, is_little_endian, header, segments, sections, names, cli>>
    /\ UNCHANGED payloads
    /\ UNCHANGED codecVars

ByteOrderOf_not_be(data) == data # 2

\* the value read_ident gives the reader's byte order from the data-encoding byte
ByteOrderOf(data) == data = ELF_DATA_LE

\* read_ident: the data-encoding byte selects the reader's byte order
ReadData ==
    /\ pc = "data"
    /\ LET r == read_exact(file, Reader(pos, reads), U64(1))
       IN  IF r.fail
           THEN Abort("io", r) /\ UNCHANGED <<ident, is_little_endian>>
           ELSE /\ is_little_endian' = ByteOrderOf(read_u8(file, pos))
                /\ ident' = [magic |-> ident.magic, is_64_bit |-> ident.is_64_bit,
                             is_little_endian |-> ByteOrderOf(read_u8(file, pos))]
                /\ pc' = "ident"
                /\ pos' = r.pos
                /\ reads' = r.reads
                /\ UNCHANGED result
    /\ UNCHANGED <<file, header, segments, sections, names, cli>>
    /\ UNCHANGED payloads
    /\ UNCHANGED codecVars

OsAbiAccepted_linux(os_abi) == os_abi \in {Named("SystemV"), Named("Linux")}

\* the OS/ABI policy of read_ident: whether the decoded variant is accepted
OsAbiAccepted(os_abi) == os_abi = Named("SystemV")

\* read_ident, the rest: version, OS/ABI (validated), ABI version, 7 padding bytes
ReadIdentRest ==
    /\ pc = "ident"
    /\ LET r2 == ReadEach(file, Reader(pos, reads), <<1, 1>>)
       IN  IF r2.fail
           THEN Abort("io", r2) /\ UNCHANGED ident
           ELSE LET version == read_u8(file, pos)
                    os_abi == OsAbi_from_u8(read_u8(file, Add64(pos, 1)))
                    r3 == read_exact(file, r2, U64(1))
                IN  IF ~OsAbiAccepted(os_abi)
                    THEN Abort("format", r2) /\ UNCHANGED ident
                    ELSE IF r3.fail
                    THEN Abort("io", r3) /\ UNCHANGED ident
                    ELSE /\ ident' = [magic |-> ident.magic, is_64_bit |-> ident.is_64_bit,
                                      is_little_endian |-> ident.is_little_endian,
                                      version |-> version, os_abi |-> os_abi,
                                      abi_version |-> read_u8(file, Add64(pos, 2))]
                         /\ pc' = "header"
                         /\ pos' = Add64(r3.pos, 7)
                         /\ reads' = r3.reads
                         /\ UNCHANGED result
    /\ UNCHANGED <<file, is_little_endian, header, segments, sections, names, cli>>
    /\ UNCHANGED payloads
    /\ UNCHANGED codecVars

\* read_header after read_ident: the thirteen remaining fields, in file order
ReadHeaderFields ==
    /\ pc = "header"
    /\ LET r == ReadEach(file, Reader(pos, reads), HeaderWidths)
           at(k) == FieldAt(pos, HeaderWidths, k)
           le == is_little_endian
       IN  IF r.fail
           THEN Abort("io", r) /\ UNCHANGED header
           ELSE /\ header' =
                     [kind |-> FileType_from_u16(read_u16(file, at(1), le)),
                      machine |-> Machine_from_u16(read_u16(file, at(2), le)),
                      version |-> read_u32(file, at(3), le),
                      entry |-> read_u64(file, at(4), le),
                      program_header_offset |-> read_u64(file, at(5), le),
                      section_header_offset |-> read_u64(file, at(6), le),
                      flags |-> read_u32(file, at(7), le),
                      header_size |-> read_u16(file, at(8), le),
                      program_header_entry_size |-> read_u16(file, at(9), le),
                      program_header_count |-> read_u16(file, at(10), le),
                      section_header_entry_size |-> read_u16(file, at(11), le),
                      section_header_count |-> read_u16(file, at(12), le),
                      section_header_names_index |-> read_u16(file, at(13), le)]
                /\ pc' = "segseek"
                /\ pos' = r.pos
                /\ reads' = r.reads
                /\ UNCHANGED result
    /\ UNCHANGED <<file, is_little_endian, ident, segments, sections, names, cli>>
    /\ UNCHANGED payloads
    /\ UNCHANGED codecVars

\* read_segments: Vec::with_capacity and the seek to the table
SeekSegments ==
    /\ pc = "segseek"
    /\ \E seek \in SeekOutcomes(header.program_header_offset) :
          IF seek
          THEN /\ pos' = header.program_header_offset
               /\ pc' = "segment"
               /\ UNCHANGED <<result, reads>>
          ELSE Abort("io", Reader(pos, reads))
    /\ UNCHANGED <<file, is_little_endian, ident, header, segments, sections, names, cli>>
    /\ UNCHANGED payloads
    /\ UNCHANGED codecVars

\* where the stream stands when an iteration of a table loop ends
RestoredPosition(previous_pos, offset, size) == previous_pos

\* read_segments: one iteration of the loop
ReadSegment ==
    /\ pc = "segment"
    /\ Len(segments) < header.program_header_count
    /\ LET r == ReadEach(file, Reader(pos, reads), SegmentWidths)
           at(k) == FieldAt(pos, SegmentWidths, k)
           le == is_little_endian
           offset == read_u64(file, at(3), le)
           file_size == read_u64(file, at(6), le)
       IN  IF r.fail
           THEN Abort("io", r) /\ UNCHANGED <<segments, payloads>>
           ELSE \E seek \in SeekOutcomes(offset), alloc \in AllocOutcomes(file_size) :
                LET p == FetchPayload(file, r, offset, file_size, seek, alloc)
                IN  IF p.status # "ok"
                    THEN /\ Abort(p.status, p)
                         /\ payloads' = Append(payloads, [offset |-> offset, size |-> file_size])
                         /\ UNCHANGED segments
                    ELSE /\ payloads' = Append(payloads, [offset |-> offset, size |-> file_size])
                         /\ segments' = Append(segments,
                              [kind |-> ProgramType_from_u32(read_u32(file, at(1), le)),
                               flags |-> read_u32(file, at(2), le),
                               offset |-> offset,
                               virtual_address |-> read_u64(file, at(4), le),
                               physical_address |-> read_u64(file, at(5), le),
                               file_size |-> file_size,
                               memory_size |-> read_u64(file, at(7), le),
                               alignment |-> read_u64(file, at(8), le),
                               data |-> p.data])
                         /\ pos' = RestoredPosition(r.pos, offset, file_size)
                         /\ reads' = p.reads
                         /\ UNCHANGED <<pc, result>>
    /\ UNCHANGED <<file, is_little_endian, ident, header, sections, names, cli>>
    /\ UNCHANGED codecVars

\* read_segments returns its vector; read_sections seeks to its table
SeekSections ==
    /\ pc = "segment"
    /\ Len(segments) = header.program_header_count
    /\ \E seek \in SeekOutcomes(header.section_header_offset) :
          IF seek
          THEN /\ pos' = header.section_header_offset
               /\ pc' = "section"
               /\ UNCHANGED <<result, reads>>
          ELSE Abort("io", Reader(pos, reads))
    /\ UNCHANGED <<file, is_little_endian, ident, header, segments, sections, names, cli>>
    /\ UNCHANGED payloads
    /\ UNCHANGED codecVars

\* read_sections: one iteration of the loop
ReadSection ==
    /\ pc = "section"
    /\ Len(sections) < header.section_header_count
    /\ LET r == ReadEach(file, Reader(pos, reads), SectionWidths)
           at(k) == FieldAt(pos, SectionWidths, k)
           le == is_little_endian
           offset == read_u64(file, at(5), le)
           size == read_u64(file, at(6), le)
       IN  IF r.fail
           THEN Abort("io", r) /\ UNCHANGED <<sections, payloads>>
           ELSE \E seek \in SeekOutcomes(offset), alloc \in AllocOutcomes(size) :
                LET p == FetchPayload(file, r, offset, size, seek, alloc)
                IN  IF p.status # "ok"
                    THEN /\ Abort(p.status, p)
                         /\ payloads' = Append(payloads, [offset |-> offset, size |-> size])
                         /\ UNCHANGED sections
                    ELSE /\ payloads' = Append(payloads, [offset |-> offset, size |-> size])
                         /\ sections' = Append(sections,
                              [name_index |-> Widen32(read_u32(file, at(1), le)),
                               kind |-> SectionType_from_u32(read_u32(file, at(2), le)),
                               flags |-> read_u64(file, at(3), le),
                               address |-> read_u64(file, at(4), le),
                               offset |-> offset,
                               size |-> size,
                               link |-> read_u32(file, at(7), le),
                               info |-> read_u32(file, at(8), le),
                               address_alignment |-> read_u64(file, at(9), le),
                               entry_size |-> read_u64(file, at(10), le),
                               data |-> p.data])
                         /\ pos' = RestoredPosition(r.pos, offset, size)
                         /\ reads' = p.reads
                         /\ UNCHANGED <<pc, result>>
    /\ UNCHANGED <<file, is_little_endian, ident, header, segments, names, cli>>
    /\ UNCHANGED codecVars

\* read_sections returns its vector and Elf::parse returns Ok(Elf { .. })
ParseOk ==
    /\ pc = "section"
    /\ Len(sections) = header.section_header_count
    /\ result' = "ok"
    /\ pc' = "main"
    /\ UNCHANGED <<file, pos, is_little_endian, ident, header, segments, sections,
                   reads, names, cli>>
    /\ UNCHANGED payloads
    /\ UNCHANGED codecVars

----------------------------------------------------------------------------
(* main: section-name resolution *)

\* a UTF-8 continuation byte
Cont(b) == b \in \h80 .. \hBF

\* std::str::from_utf8(bytes).is_ok(): well-formed UTF-8 only (no overlong
\* forms, no surrogates, nothing above U+10FFFF)
RECURSIVE from_utf8_ok(_)
from_utf8_ok(bytes) ==
    IF bytes = <<>> THEN TRUE
    ELSE LET b == bytes[1]
             n == Len(bytes)
         IN  IF b < \h80 THEN from_utf8_ok(SubSeq(bytes, 2, n))
             ELSE IF b \in \hC2 .. \hDF
             THEN n >= 2 /\ Cont(bytes[2]) /\ from_utf8_ok(SubSeq(bytes, 3, n))
             ELSE IF b \in \hE0 .. \hEF
             THEN /\ n >= 3
                  /\ bytes[2] \in (IF b = \hE0 THEN \hA0 .. \hBF
                                   ELSE IF b = \hED THEN \h80 .. \h9F
                                   ELSE \h80 .. \hBF)
                  /\ Cont(bytes[3])
                  /\ from_utf8_ok(SubSeq(bytes, 4, n))
             ELSE IF b \in \hF0 .. \hF4
             THEN /\ n >= 4
                  /\ bytes[2] \in (IF b = \hF0 THEN \h90 .. \hBF
                                   ELSE IF b = \hF4 THEN \h80 .. \h8F
                                   ELSE \h80 .. \hBF)
                  /\ Cont(bytes[3]) /\ Cont(bytes[4])
                  /\ from_utf8_ok(SubSeq(bytes, 5, n))
             ELSE FALSE

\* name_data[start..].iter().position(|it| *it == 0): the set holds the
\* 0-based positions, relative to start, of the nul bytes at or after start
NulPositions(name_data, start) ==
    {i \in 0 .. (Len(name_data) - start - 1) : name_data[start + i + 1] = 0}

\* least element of a non-empty set of naturals
Least(S) == CHOOSE m \in S : \A k \in S : m <= k

NameEnd_nostart(name_data, start) == Least(NulPositions(name_data, start))

\* the `end` main computes: position(..).unwrap() + start
NameEnd(name_data, start) == Least(NulPositions(name_data, start)) + start

\* &name_data[start..end]
NameBytes(name_data, start) == SubSeq(name_data, start + 1, NameEnd(name_data, start))

\* main after Elf::parse returned Ok: elf.sections[names_index as usize]
MainNameTable ==
    /\ pc = "main"
    /\ IF header.section_header_names_index < Len(sections)
       THEN cli' = "running" /\ pc' = "names"
       ELSE cli' = "panic" /\ pc' = "done"
    /\ UNCHANGED <<file, pos, is_little_endian, result, ident, header, segments,
                   sections, reads, names>>
    /\ UNCHANGED payloads
    /\ UNCHANGED codecVars

\* one iteration of main's loop over elf.sections
ResolveName ==
    /\ pc = "names"
    /\ Len(names) < Len(sections)
    /\ LET name_data == sections[header.section_header_names_index + 1].data
           section == sections[Len(names) + 1]
           start == section.name_index
       IN  IF ~Small(start) \/ ToInt(start) > Len(name_data)
           THEN cli' = "panic" /\ pc' = "done" /\ UNCHANGED names
           ELSE IF NulPositions(name_data, ToInt(start)) = {}
           THEN cli' = "panic" /\ pc' = "done" /\ UNCHANGED names
           ELSE IF ~from_utf8_ok(NameBytes(name_data, ToInt(start)))
           THEN cli' = "utf8" /\ pc' = "done" /\ UNCHANGED names
           ELSE /\ names' = Append(names,
                                   [name |-> NameBytes(name_data, ToInt(start)),
                                    start |-> ToInt(start),
                                    end |-> NameEnd(name_data, ToInt(start))])
                /\ UNCHANGED <<cli, pc>>
    /\ UNCHANGED <<file, pos, is_little_endian, result, ident, header, segments,
                   sections, reads>>
    /\ UNCHANGED payloads
    /\ UNCHANGED codecVars

\* main's loop is over and main returns Ok(())
MainDone ==
    /\ pc = "names"
    /\ Len(names) = Len(sections)
    /\ cli' = "ok"
    /\ pc' = "done"
    /\ UNCHANGED <<file, pos, is_little_endian, result, ident, header, segments,
                   sections, reads, names>>
    /\ UNCHANGED payloads
    /\ UNCHANGED codecVars

----------------------------------------------------------------------------
(* Byte sources the decoder is run on *)

MaxSegments == 2
MaxSections == 2

RECURSIVE Concat(_)
Concat(ss) == IF ss = <<>> THEN <<>> ELSE Head(ss) \o Concat(Tail(ss))

RECURSIVE Reverse(_)
Reverse(q) == IF q = <<>> THEN <<>> ELSE Append(Reverse(Tail(q)), Head(q))

Zeros(n) == [i \in 1 .. n |-> 0]

\* the bytes of a limb sequence, in the file's byte order
Enc(v, le) ==
    LET be == Concat([i \in 1 .. Len(v) |-> <<v[i] \div 256, v[i] % 256>>])
    IN  IF le THEN Reverse(be) ELSE be

GoodMagic == <<\h7F, \h45, \h4C, \h46>>

\* payload bytes: ".t\0", "\xC3\xA9\0", "\xFF\0", "ABCD"
Blob == <<\h2E, \h74, 0, \hC3, \hA9, 0, \hFF, 0, \h41, \h42, \h43, \h44>>

Far == <<0, 1, 0, 0>>          \* 2^32: beyond any source of the model
Refused == <<\h8000, 0, 0, 0>>   \* 2^63: above i64::MAX and isize::MAX

\* An entry's payload place: "rel" entries lie in the blob, at base + at.
Place(base, e) == IF e.rel THEN Add64(U64(base), e.at) ELSE e.off

SegEntry(base, e, le, slack) ==
    Enc(e.kind, le) \o Enc(<<0, 5>>, le) \o Enc(Place(base, e), le)
    \o Enc(U64(4096), le) \o Enc(IF e.rel THEN U64(8192) ELSE U64(0), le)
    \o Enc(e.size, le) \o Enc(e.mem, le) \o Enc(U64(16), le) \o Zeros(slack)

SecEntry(base, e, le, slack) ==
    Enc(<<0, e.name>>, le) \o Enc(e.kind, le) \o Enc(U64(2), le)
    \o Enc(U64(4096), le) \o Enc(Place(base, e), le) \o Enc(e.size, le)
    \o Enc(<<0, 0>>, le) \o Enc(<<0, 7>>, le) \o Enc(U64(1), le)
    \o Enc(U64(0), le) \o Zeros(slack)

\* The file a parameter record describes: a 64-byte header, the program-header
\* table at 64 with entries of 56 + slack bytes, the section-header table after
\* it with entries of 64 + slack bytes, the blob, cut to `cut` bytes.
Build(p) ==
    LET le == p.data = 1
        n == Len(p.segs)
        m == Len(p.secs)
        shoff == 64 + n * (56 + p.slack)
        base == shoff + m * (64 + p.slack)
        all ==
            p.magic \o <<p.class, p.data, 1, p.osabi, 0>> \o Zeros(7)
            \o Enc(<<p.kind>>, le) \o Enc(<<p.machine>>, le) \o Enc(<<0, 1>>, le)
            \o Enc(U64(4096), le)
            \o Enc(IF p.phoff = <<>> THEN U64(64) ELSE p.phoff, le)
            \o Enc(IF p.shoff = <<>> THEN U64(shoff) ELSE p.shoff, le)
            \o Enc(<<0, 0>>, le) \o Enc(<<64>>, le)
            \o Enc(<<56 + p.slack>>, le) \o Enc(<<n>>, le)
            \o Enc(<<64 + p.slack>>, le) \o Enc(<<m>>, le)
            \o Enc(<<p.strndx>>, le)
            \o Concat([i \in 1 .. n |-> SegEntry(base, p.segs[i], le, p.slack)])
            \o Concat([i \in 1 .. m |-> SecEntry(base, p.secs[i], le, p.slack)])
            \o Blob
    IN  IF p.cut < 0 THEN all ELSE SubSeq(all, 1, p.cut)

InBlob(kind, at, size, mem, name) ==
    [kind |-> kind, rel |-> TRUE, at |-> at, off |-> <<>>, size |-> U64(size),
     mem |-> U64(mem), name |-> name]

Away(kind, off, size, name) ==
    [kind |-> kind, rel |-> FALSE, at |-> 0, off |-> off, size |-> size,
     mem |-> size, name |-> name]

\* well-formed program-header entries: a Load, one with memory_size > file_size,
\* an OS-specific one without bytes
SegOptions ==
    {InBlob(W32(0, 1), 8, 4, 4, 0), InBlob(W32(0, 1), 0, 3, 16, 0),
     Away(W32(\h6474, \hE551), U64(0), U64(0), 0)}

\* well-formed section-header entries: the name table (8 bytes), program data
\* named "\xC3\xA9", a NoBits entry with the empty name, an unassigned type
SecOptions ==
    {InBlob(W32(0, 3), 0, 8, 8, 0), InBlob(W32(0, 1), 8, 4, 4, 3),
     Away(W32(0, 8), Far, U64(0), 7), InBlob(W32(0, \h0C), 6, 6, 6, 2)}

\* entries whose payload cannot be fetched, or whose name cannot be resolved
FaultOptions ==
    {InBlob(W32(0, 1), 10, 4, 4, 0), Away(W32(0, 1), U64(0), Refused, 0),
     Away(W32(0, 1), U64(0), Far, 0), Away(W32(0, 1), Refused, U64(0), 0),
     InBlob(W32(0, 1), 0, 12, 12, 6), InBlob(W32(0, 1), 0, 12, 12, 8),
     InBlob(W32(0, 1), 0, 8, 8, 9), InBlob(W32(0, 1), 0, 8, 8, 8)}

SeqsUpTo(S, n) == UNION {[1 .. k -> S] : k \in 0 .. n}

Params(magic, class, data, osabi, slack, segs, secs, strndx, cut) ==
    [magic |-> magic, class |-> class, data |-> data, osabi |-> osabi,
     kind |-> 2, machine |-> \h3E, phoff |-> <<>>, shoff |-> <<>>,
     slack |-> slack, segs |-> segs, secs |-> secs, strndx |-> strndx, cut |-> cut]

Plain(data, slack, segs, secs, strndx) ==
    Params(GoodMagic, 2, data, 0, slack, segs, secs, strndx, -1)

OneSeg == <<InBlob(W32(0, 1), 8, 4, 4, 0)>>
TwoSecs == <<InBlob(W32(0, 3), 0, 8, 8, 0), InBlob(W32(0, 1), 8, 4, 4, 3)>>

\* well-formed tables of every shape up to the bounds, in both byte orders
TableFiles ==
    {Plain(data, 0, segs, secs, 0) :
        data \in {1, 2}, segs \in SeqsUpTo(SegOptions, MaxSegments),
        secs \in SeqsUpTo(SecOptions, MaxSections)}

\* declared entry sizes larger than the entries, and every name-table index
SlackFiles ==
    {Plain(data, 8, segs, [i \in 1 .. m |-> TwoSecs[1]], x) :
        data \in {1, 2}, segs \in SeqsUpTo(SegOptions, MaxSegments),
        m \in 0 .. MaxSections, x \in 0 .. 2}

\* one faulty entry, as a segment or as a section, after well-formed ones
FaultFiles ==
    {Plain(data, 0, [i \in 1 .. n |-> IF i = n THEN e ELSE OneSeg[1]], TwoSecs, 0) :
        data \in {1, 2}, n \in 1 .. MaxSegments, e \in FaultOptions}
    \cup
    {Plain(data, 0, OneSeg,
           [i \in 1 .. m + 1 |-> IF i = m + 1 THEN e ELSE TwoSecs[1]], 0) :
        data \in {1, 2}, m \in 1 .. MaxSections, e \in FaultOptions}

\* identification bytes of every kind
IdentFiles ==
    {Params(magic, class, data, osabi, 0, OneSeg, TwoSecs, 0, cut) :
        magic \in {GoodMagic, Reverse(GoodMagic), <<\h7F, \h45, \h4C, \h47>>},
        class \in {1, 2}, data \in {0, 1, 2}, osabi \in {0, 3, 9},
        cut \in {-1, 5, 8}}

\* table offsets beyond the source, with and without entries to read there
OffsetFiles ==
    {[Plain(data, 0, segs, secs, 0) EXCEPT !.phoff = po, !.shoff = so] :
        data \in {1, 2}, segs \in {<<>>, OneSeg}, secs \in {<<>>, TwoSecs},
        po \in {<<>>, Far, Refused}, so \in {<<>>, Far, Refused}}

\* one file cut at every length
CutFiles ==
    {Params(GoodMagic, 2, data, 0, 0, OneSeg, TwoSecs, 0, cut) :
        data \in {1, 2}, cut \in 0 .. (64 + 56 + 2 * 64 + Len(Blob))}

InputFiles ==
    {Build(p) : p \in TableFiles \cup SlackFiles \cup FaultFiles \cup IdentFiles
                      \cup OffsetFiles \cup CutFiles}

----------------------------------------------------------------------------
(* Specification of the decoder and of main *)

Init ==
    /\ file \in InputFiles
    /\ pos = U64(0)
    /\ is_little_endian = TRUE
    /\ pc = "magic"
    /\ result = "running"
    /\ ident = [magic |-> W32(0, 0)]
    /\ header = [kind |-> Named("None")]
    /\ segments = <<>>
    /\ sections = <<>>
    /\ reads = <<>>
    /\ payloads = <<>>
    /\ names = <<>>
    /\ cli = "idle"
    /\ raw = 0
    /\ codec = "none"
    /\ variant = Named("none")
    /\ encoded = 0

Next ==
    \/ ReadMagicClass
    \/ ReadData
    \/ ReadIdentRest
    \/ ReadHeaderFields
    \/ SeekSegments
    \/ ReadSegment
    \/ SeekSections
    \/ ReadSection
    \/ ParseOk
    \/ MainNameTable
    \/ ResolveName
    \/ MainDone

Spec == Init /\ [][Next]_vars

----------------------------------------------------------------------------
(* Specification of the codecs: decode a raw value, re-encode the variant *)

\* raw values: every u8, every u16, and for u32 every combination of the
\* limbs around each boundary of the match arms
Raw8 == 0 .. \hFF
Raw16 == 0 .. \hFFFF
Raw32 ==
    {W32(hi, lo) :
        hi \in {0, 1, \h5FFF, \h6000, \h6ABC, \h6FFF, \h7000, \h7ABC, \h7FFF,
                \h8000, \hFFFF},
        lo \in (0 .. \h14) \cup {\h8000, \hFFFE, \hFFFF}}

InitCodec ==
    /\ \/ codec = "OsAbi" /\ raw \in Raw8
       \/ codec \in {"FileType", "Machine"} /\ raw \in Raw16
       \/ codec \in {"ProgramType", "SectionType"} /\ raw \in Raw32
    /\ variant = Named("none")
    /\ encoded = 0
    /\ pc = "decode"
    /\ file = <<>>
    /\ pos = U64(0)
    /\ is_little_endian = TRUE
    /\ result = "running"
    /\ ident = [magic |-> W32(0, 0)]
    /\ header = [kind |-> Named("None")]
    /\ segments = <<>>
    /\ sections = <<>>
    /\ reads = <<>>
    /\ payloads = <<>>
    /\ names = <<>>
    /\ cli = "idle"

Decoded(v) ==
    /\ variant' = v
    /\ pc' = "encode"
    /\ UNCHANGED <<raw, codec, encoded>>
    /\ UNCHANGED <<file, pos, is_little_endian, result, ident, header, segments,
                   sections, reads, payloads, names, cli>>

Encoded(v) ==
    /\ encoded' = v
    /\ pc' = "done"
    /\ UNCHANGED <<raw, codec, variant>>
    /\ UNCHANGED <<file, pos, is_little_endian, result, ident, header, segments,
                   sections, reads, payloads, names, cli>>

DecodeOsAbi == pc = "decode" /\ codec = "OsAbi" /\ Decoded(OsAbi_from_u8(raw))
EncodeOsAbi == pc = "encode" /\ codec = "OsAbi" /\ Encoded(u8_from_OsAbi(variant))
DecodeFileType == pc = "decode" /\ codec = "FileType" /\ Decoded(FileType_from_u16(raw))
EncodeFileType == pc = "encode" /\ codec = "FileType" /\ Encoded(u16_from_FileType(variant))
DecodeMachine == pc = "decode" /\ codec = "Machine" /\ Decoded(Machine_from_u16(raw))
EncodeMachine == pc = "encode" /\ codec = "Machine" /\ Encoded(u16_from_Machine(variant))
DecodeProgramType ==
    pc = "decode" /\ codec = "ProgramType" /\ Decoded(ProgramType_from_u32(raw))
EncodeProgramType ==
    pc = "encode" /\ codec = "ProgramType" /\ Encoded(u32_from_ProgramType(variant))
DecodeSectionType ==
    pc = "decode" /\ codec = "SectionType" /\ Decoded(SectionType_from_u32(raw))
EncodeSectionType ==
    pc = "encode" /\ codec = "SectionType" /\ Encoded(u32_from_SectionType(variant))

NextCodec ==
    \/ DecodeOsAbi
    \/ EncodeOsAbi
    \/ DecodeFileType
    \/ EncodeFileType
    \/ DecodeMachine
    \/ EncodeMachine
    \/ DecodeProgramType
    \/ EncodeProgramType
    \/ DecodeSectionType
    \/ EncodeSectionType

SpecCodec == InitCodec /\ [][NextCodec]_vars

----------------------------------------------------------------------------
(* C1, C2: the codecs *)

\* C1: for each of the five codecs, decoding a raw value and re-encoding the
\* variant gives back exactly the raw value.
C1_RoundTrip == pc = "done" => encoded = raw

\* C1 witness: the last value of SectionType's OperatingSystem window has made
\* the round trip.
C1_Witness ==
    /\ pc = "done"
    /\ codec = "SectionType"
    /\ raw = W32(\h6FFF, \hFFFF)
    /\ variant = Carry("OperatingSystem", raw)
    /\ encoded = raw

\* the table of section 4.2: named constants by raw value
FileTypeNames == <<"None", "Relocatable", "Executable", "Dynamic", "Core">>
ProgramTypeNames ==
    <<"Null", "Load", "Dynamic", "Interpreter", "Note", "SharedLibrary",
      "ProgramHeaders", "ThreadLocalStorage">>
SectionTypeLowNames ==
    <<"Null", "ProgramData", "SymbolTable", "StringTable",
      "RelocationEntriesWithAddends", "HashTable", "Dynamic", "Note", "NoBits",
      "RelocationEntries", "SharedLibrary", "LinkerSymbolTable">>
SectionTypeHighNames ==
    <<"InitArray", "FinishArray", "PreInitArray", "Group", "SymbolTableNameIndices">>

\* the OperatingSystem / Processor windows of the 32-bit fields, else Other
Window32(v) ==
    IF v[1] \in \h6000 .. \h6FFF THEN "OperatingSystem"
    ELSE IF v[1] \in \h7000 .. \h7FFF THEN "Processor"
    ELSE "Other"

TableTag(c, v) ==
    CASE c = "OsAbi" -> IF v = 0 THEN "SystemV" ELSE IF v = 3 THEN "Linux" ELSE "Other"
      [] c = "FileType" ->
            IF v <= 4 THEN FileTypeNames[v + 1]
            ELSE IF v >= \hFF00 THEN "Processor"
            ELSE IF v >= \hFE00 THEN "OperatingSystem"
            ELSE "Other"
      [] c = "Machine" ->
            IF v = \h03 THEN "X86" ELSE IF v = \h28 THEN "Arm"
            ELSE IF v = \h3E THEN "Amd64" ELSE IF v = \hB7 THEN "Arm64" ELSE "Other"
      [] c = "ProgramType" ->
            IF v[1] = 0 /\ v[2] <= 7 THEN ProgramTypeNames[v[2] + 1] ELSE Window32(v)
      [] c = "SectionType" ->
            IF v[1] = 0 /\ v[2] <= \h0B THEN SectionTypeLowNames[v[2] + 1]
            ELSE IF v[1] = 0 /\ v[2] \in \h0E .. \h12
            THEN SectionTypeHighNames[v[2] - \h0E + 1]
            ELSE Window32(v)

PassThrough == {"Other", "OperatingSystem", "Processor"}

\* C2: every raw value decodes, to the variant the table gives it: a named
\* variant without payload, or Other / OperatingSystem / Processor carrying the
\* raw value; a value inside a window is never Other.
C2_Classification ==
    pc \in {"encode", "done"} =>
        /\ variant.tag = TableTag(codec, raw)
        /\ variant = (IF variant.tag \in PassThrough THEN Carry(variant.tag, raw)
                      ELSE Named(variant.tag))

\* C2 witness: the first value of FileType's OperatingSystem window has been
\* decoded.
C2_Witness ==
    /\ pc = "encode"
    /\ codec = "FileType"
    /\ raw = \hFE00
    /\ variant = Carry("OperatingSystem", \hFE00)

----------------------------------------------------------------------------
(* C3, C4: identification *)

\* the first bytes of the source, as many as there are up to n
Prefix(f, n) == SubSeq(f, 1, IF Len(f) < n THEN Len(f) ELSE n)

MagicOk(f) == Prefix(f, 4) = GoodMagic

\* the source starts with something else than the magic, or with the magic and
\* a class byte other than 0x02
BadIdent(f) == ~MagicOk(f) \/ (Len(f) >= 5 /\ f[5] # 2)

\* the two reads read_ident makes before it validates
MagicClassReads == <<[at |-> U64(0), len |-> U64(4)], [at |-> U64(4), len |-> U64(1)]>>

\* C3: a source with a wrong magic, or with the magic and a wrong class byte,
\* never yields an Elf: the parse ends in an error at its first step, and with
\* at least 5 bytes that error is the format error, raised when only the magic
\* and the class byte have been read and the byte order is still the initial one.
C3_BadIdentRejected ==
    BadIdent(file) =>
        /\ result # "ok"
        /\ pc # "magic" => pc = "done" /\ result \in {"io", "format"}
        /\ (pc # "magic" /\ Len(file) >= 5) =>
              /\ result = "format"
              /\ reads = MagicClassReads
              /\ is_little_endian = TRUE
              /\ pos = U64(5)

\* C3 witness: a file with the magic, class byte 1 and data byte 2 (big-endian)
\* has been refused with the format error.
C3_Witness ==
    /\ MagicOk(file) /\ Len(file) > 64 /\ file[5] = 1 /\ file[6] = 2
    /\ result = "format"
    /\ pc = "done"

\* the source has the magic, class 0x02 and an OS/ABI byte
GoodIdent(f) == MagicOk(f) /\ Len(f) >= 8 /\ f[5] = 2

\* C4: with valid magic and class, every OS/ABI byte other than 0 (3, Linux,
\* included) ends the parse with the format error and without an Elf;
\* identification is passed, and an Elf returned, only with os_abi = SystemV.
C4_OnlySystemV ==
    /\ (GoodIdent(file) /\ file[8] # 0) =>
          /\ result # "ok"
          /\ pc \in {"magic", "data", "ident", "done"}
          /\ pc = "done" => result = "format"
    /\ pc \in {"header", "segseek", "segment", "section", "main", "names"} =>
          file[8] = 0 /\ ident.os_abi = Named("SystemV")
    /\ result = "ok" => file[8] = 0 /\ ident.os_abi = Named("SystemV")

\* C4 witness: a file with valid magic and class and OS/ABI byte 3 has been
\* refused with the format error.
C4_Witness ==
    /\ GoodIdent(file) /\ file[8] = 3
    /\ result = "format"
    /\ pc = "done"

----------------------------------------------------------------------------
(* C5, C6, C7: the tables *)

\* the byte order the file selects (byte 5)
FileLE == file[6] = 1

\* the table-reading loops have ended: read_segments / read_sections returns Ok
SegmentsRead == pc = "segment" /\ Len(segments) = header.program_header_count
SectionsRead == pc = "section" /\ Len(sections) = header.section_header_count

\* C5: when a table read ends, the stream stands at table_offset + count *
\* entry_size, entry_size being the entry size the header declares for it.
C5_CursorAtDeclaredEnd ==
    /\ SegmentsRead =>
          pos = Add64(header.program_header_offset,
                      header.program_header_count * header.program_header_entry_size)
    /\ SectionsRead =>
          pos = Add64(header.section_header_offset,
                      header.section_header_count * header.section_header_entry_size)

\* the program-header entry that starts at `at`, compared field by field with a
\* decoded segment
SegmentIsEntryAt(seg, at) ==
    LET f(k) == FieldAt(at, SegmentWidths, k)
    IN  /\ u32_from_ProgramType(seg.kind) = read_u32(file, f(1), FileLE)
        /\ seg.flags = read_u32(file, f(2), FileLE)
        /\ seg.offset = read_u64(file, f(3), FileLE)
        /\ seg.virtual_address = read_u64(file, f(4), FileLE)
        /\ seg.physical_address = read_u64(file, f(5), FileLE)
        /\ seg.file_size = read_u64(file, f(6), FileLE)
        /\ seg.memory_size = read_u64(file, f(7), FileLE)
        /\ seg.alignment = read_u64(file, f(8), FileLE)

SectionIsEntryAt(sec, at) ==
    LET f(k) == FieldAt(at, SectionWidths, k)
    IN  /\ sec.name_index = Widen32(read_u32(file, f(1), FileLE))
        /\ u32_from_SectionType(sec.kind) = read_u32(file, f(2), FileLE)
        /\ sec.flags = read_u64(file, f(3), FileLE)
        /\ sec.address = read_u64(file, f(4), FileLE)
        /\ sec.offset = read_u64(file, f(5), FileLE)
        /\ sec.size = read_u64(file, f(6), FileLE)
        /\ sec.link = read_u32(file, f(7), FileLE)
        /\ sec.info = read_u32(file, f(8), FileLE)
        /\ sec.address_alignment = read_u64(file, f(9), FileLE)
        /\ sec.entry_size = read_u64(file, f(10), FileLE)

\* the counts the header bytes declare
DeclaredSegments == read_u16(file, U64(56), FileLE)
DeclaredSections == read_u16(file, U64(60), FileLE)

\* C6: a returned Elf has as many segments and sections as the header
\* declares, and the k-th of them is the k-th entry of its table, the entries
\* of a table lying entry_size (as declared) apart.
C6_CountAndOrder ==
    result = "ok" =>
        /\ Len(segments) = DeclaredSegments
        /\ Len(sections) = DeclaredSections
        /\ \A k \in 1 .. Len(segments) :
              SegmentIsEntryAt(segments[k],
                  Add64(header.program_header_offset,
                        (k - 1) * header.program_header_entry_size))
        /\ \A k \in 1 .. Len(sections) :
              SectionIsEntryAt(sections[k],
                  Add64(header.section_header_offset,
                        (k - 1) * header.section_header_entry_size))

\* what holds of the code: counts as declared, the k-th entry taken from the
\* bytes 56 (64) * (k - 1) after the table offset, whatever size is declared
CountAndOrderPacked ==
    result = "ok" =>
        /\ Len(segments) = DeclaredSegments
        /\ Len(sections) = DeclaredSections
        /\ \A k \in 1 .. Len(segments) :
              SegmentIsEntryAt(segments[k],
                  Add64(header.program_header_offset, (k - 1) * Sum(SegmentWidths)))
        /\ \A k \in 1 .. Len(sections) :
              SectionIsEntryAt(sections[k],
                  Add64(header.section_header_offset, (k - 1) * Sum(SectionWidths)))

\* what holds of the code: the stream ends a table read count * 56 (64) bytes
\* after the table offset
CursorAtPackedEnd ==
    /\ SegmentsRead =>
          pos = Add64(header.program_header_offset,
                      header.program_header_count * Sum(SegmentWidths))
    /\ SectionsRead =>
          pos = Add64(header.section_header_offset,
                      header.section_header_count * Sum(SectionWidths))

\* the bytes [offset, offset + size) of the file, for a range inside it
Range(offset, size) ==
    IF size = U64(0) THEN <<>>
    ELSE [i \in 1 .. ToInt(size) |-> file[ToInt(offset) + i]]

InsideFile(offset, size) ==
    \/ size = U64(0)
    \/ Small(offset) /\ Small(size) /\ ToInt(offset) + ToInt(size) <= Len(file)

\* C7: in a returned Elf every segment's data is exactly the file's bytes
\* [offset, offset + file_size) of its own entry, whatever memory_size is, and
\* every section's data exactly the bytes [offset, offset + size).
C7_PayloadExact ==
    result = "ok" =>
        /\ \A k \in 1 .. Len(segments) :
              /\ InsideFile(segments[k].offset, segments[k].file_size)
              /\ Len(segments[k].data) = ToInt(segments[k].file_size)
              /\ segments[k].data = Range(segments[k].offset, segments[k].file_size)
        /\ \A k \in 1 .. Len(sections) :
              /\ InsideFile(sections[k].offset, sections[k].size)
              /\ Len(sections[k].data) = ToInt(sections[k].size)
              /\ sections[k].data = Range(sections[k].offset, sections[k].size)

\* C7 witness: an Elf has been returned with a segment whose memory_size
\* exceeds its file_size of 3 bytes, and with a section of 4 bytes.
C7_Witness ==
    /\ result = "ok"
    /\ \E k \in 1 .. Len(segments) :
          /\ segments[k].file_size = U64(3)
          /\ segments[k].memory_size = U64(16)
          /\ segments[k].data = <<\h2E, \h74, 0>>
    /\ \E k \in 1 .. Len(sections) : sections[k].data = <<\h41, \h42, \h43, \h44>>

----------------------------------------------------------------------------
(* C8: truncation *)

\* a byte range handed to read_exact lies inside the source
Served(rd) == Available(file, rd.at, rd.len)

\* the payload range an entry designates lies inside the source
Held(pl) ==
    \/ pl.size = U64(0)
    \/ /\ Small(pl.offset) /\ Small(pl.size)
       /\ ToInt(pl.offset) + ToInt(pl.size) <= Len(file)

\* C8: a read that extends past the end of the source is the last one made,
\* and the parse has then returned the I/O error; so has it when the payload
\* range of a decoded entry extends past the end; an Elf is returned only when
\* every field and every payload range was read in full.
C8_TruncationIsIoError ==
    /\ \A i \in 1 .. Len(reads) - 1 : Served(reads[i])
    /\ (reads # <<>> /\ ~Served(reads[Len(reads)])) => result = "io" /\ pc = "done"
    /\ \A i \in 1 .. Len(payloads) :
          ~Held(payloads[i]) => i = Len(payloads) /\ result = "io" /\ pc = "done"
    /\ result = "ok" =>
          /\ \A i \in 1 .. Len(reads) : Served(reads[i])
          /\ \A i \in 1 .. Len(payloads) : Held(payloads[i])

\* what holds of the code: the same, for payloads of less than 2^31 bytes
\* (whose buffer is always allocated)
TruncationIsIoErrorSmall ==
    /\ \A i \in 1 .. Len(reads) - 1 : Served(reads[i])
    /\ (reads # <<>> /\ ~Served(reads[Len(reads)])) => result = "io" /\ pc = "done"
    /\ \A i \in 1 .. Len(payloads) :
          (~Held(payloads[i]) /\ Small(payloads[i].size))
              => i = Len(payloads) /\ result = "io" /\ pc = "done"
    /\ result = "ok" =>
          /\ \A i \in 1 .. Len(reads) : Served(reads[i])
          /\ \A i \in 1 .. Len(payloads) : Held(payloads[i])

----------------------------------------------------------------------------
(* C9: section names *)

\* Elf::parse returned an Elf whose name-table index is a section index and
\* whose name table has a nul byte at or after every section's name_index
NameTable == sections[header.section_header_names_index + 1].data

Resolvable ==
    /\ result = "ok"
    /\ header.section_header_names_index < Len(sections)
    /\ \A k \in 1 .. Len(sections) :
          /\ Small(sections[k].name_index)
          /\ \E j \in (ToInt(sections[k].name_index) + 1) .. Len(NameTable) :
                NameTable[j] = 0

\* the bytes of the name table from name_index up to, not including, the first
\* nul byte at or after it
RECURSIVE UpToNul(_)
UpToNul(bytes) ==
    IF bytes = <<>> \/ Head(bytes) = 0 THEN <<>>
    ELSE <<Head(bytes)>> \o UpToNul(Tail(bytes))

ExpectedName(k) ==
    UpToNul(SubSeq(NameTable, ToInt(sections[k].name_index) + 1, Len(NameTable)))

\* main has ended
MainEnded == result = "ok" /\ pc = "done"

\* C9, as stated: main resolves every section, in table order, and the k-th
\* name is the bytes from the k-th section's name_index up to the next nul.
C9_NamesResolved ==
    Resolvable =>
        /\ \A k \in 1 .. Len(names) : names[k].name = ExpectedName(k)
        /\ MainEnded => cli = "ok" /\ Len(names) = Len(sections)

\* the sections whose name bytes are not valid UTF-8
BadNames == {k \in 1 .. Len(sections) : ~from_utf8_ok(ExpectedName(k))}

\* C9, amended: main resolves the sections in table order, the k-th name being
\* the bytes from the k-th section's name_index up to the next nul, as long as
\* those bytes are valid UTF-8; at the first section whose name bytes are not,
\* main returns an error and resolves no further section.
C9_NamesResolvedUtf8 ==
    Resolvable =>
        /\ \A k \in 1 .. Len(names) :
              /\ names[k].name = ExpectedName(k)
              /\ names[k].start = ToInt(sections[k].name_index)
              /\ names[k].end = names[k].start + Len(names[k].name)
        /\ \A k \in BadNames : Len(names) < k
        /\ MainEnded =>
              IF BadNames = {}
              THEN cli = "ok" /\ Len(names) = Len(sections)
              ELSE cli = "utf8" /\ Len(names) + 1 \in BadNames

\* C9 witness: main has ended well after resolving two sections, the second
\* name being the two bytes at name_index 3.
C9_Witness ==
    /\ Resolvable
    /\ MainEnded
    /\ cli = "ok"
    /\ Len(names) = 2
    /\ names[1].name = <<\h2E, \h74>>
    /\ sections[2].name_index = U64(3)
    /\ names[2].name = <<\hC3, \hA9>>

----------------------------------------------------------------------------
(* C10: byte order *)

\* the data-encoding byte (byte 5) has been read
DataRead == Len(reads) >= 3 /\ Len(file) >= 6

\* the header field that starts at byte `at` of the file, in the file's order
Field16(at) == read_u16(file, U64(at), FileLE)
Field32(at) == read_u32(file, U64(at), FileLE)
Field64(at) == read_u64(file, U64(at), FileLE)

HeaderRead == pc \in {"segseek", "segment", "section", "main", "names"} \/ result = "ok"

\* C10: the byte order is little-endian until byte 5 is read, from then on
\* little-endian iff byte 5 is 0x01; the magic is accepted only as the bytes
\* 7F 45 4C 46 (decoded little-endian), and every wider field of the header
\* and of the table entries is decoded in the order byte 5 selects.
C10_ByteOrder ==
    /\ is_little_endian = (IF DataRead THEN file[6] = 1 ELSE TRUE)
    /\ pc \in {"magic", "data"} => is_little_endian
    /\ (pc # "magic" /\ result \notin {"io", "format"}) =>
          MagicOk(file) /\ ident.magic = ELF_MAGIC
    /\ HeaderRead =>
          /\ u16_from_FileType(header.kind) = Field16(16)
          /\ u16_from_Machine(header.machine) = Field16(18)
          /\ header.version = Field32(20)
          /\ header.entry = Field64(24)
          /\ header.program_header_offset = Field64(32)
          /\ header.section_header_offset = Field64(40)
          /\ header.flags = Field32(48)
          /\ header.header_size = Field16(52)
          /\ header.program_header_entry_size = Field16(54)
          /\ header.program_header_count = Field16(56)
          /\ header.section_header_entry_size = Field16(58)
          /\ header.section_header_count = Field16(60)
          /\ header.section_header_names_index = Field16(62)
          /\ \A k \in 1 .. Len(segments) :
                SegmentIsEntryAt(segments[k],
                    Add64(header.program_header_offset, (k - 1) * Sum(SegmentWidths)))
          /\ \A k \in 1 .. Len(sections) :
                SectionIsEntryAt(sections[k],
                    Add64(header.section_header_offset, (k - 1) * Sum(SectionWidths)))

\* C10 witness: a big-endian file has been decoded to an Elf with a segment
\* and two sections.
C10_Witness ==
    /\ result = "ok"
    /\ file[6] = 2
    /\ ~is_little_endian
    /\ header.program_header_count = 1
    /\ Len(segments) = 1
    /\ Len(sections) = 2

====
